---- MODULE Spec2Model ----
(***************************************************************************)
(* Model of notebooks/06_load_excel_files/procedure.py: the stored         *)
(* procedure main(session) and the per-file loader                         *)
(* load_excel_worksheet_to_table_local.  The session (mapping query, stage *)
(* GET, table write) and the local file system are the environment; their  *)
(* failures are nondeterministic choices.                                  *)
(***************************************************************************)
EXTENDS Naturals, Sequences, FiniteSets, TLC

\* ------------------------------------------------------------------ bounds
MaxRecords == 2      \* longest mapping the query returns in the model
MaxRuns == 2         \* invocations of main in one behaviour

\* ------------------------------------------------- stage paths and content
\* A stage path is the sequence of its "/"-separated components.
P_order == <<"@INTEGRATIONS.FROSTBYTE_RAW_STAGE", "intro", "order_detail.xlsx">>
P_loc == <<"@INTEGRATIONS.FROSTBYTE_RAW_STAGE", "intro", "location.xlsx">>
P_arch == <<"@INTEGRATIONS.FROSTBYTE_RAW_STAGE", "archive", "location.xlsx">>
P_missing == <<"@INTEGRATIONS.FROSTBYTE_RAW_STAGE", "intro", "missing.xlsx">>

StagePaths == {P_order, P_loc, P_arch, P_missing}

\* A workbook is the ordered sequence of its worksheets; a worksheet is its
\* name and its rows, each row a tuple of cell values.
WB_order ==
    << [name |-> "order_detail",
        rows |-> << <<"ID", "NAME">>, <<"1", "Alice">>, <<"2", "Bob">> >>],
       [name |-> "empty", rows |-> << >>] >>
WB_loc ==
    << [name |-> "location",
        rows |-> << <<"LOCATION_ID", "CITY">>, <<"10", "Paris">> >>] >>
WB_arch ==
    << [name |-> "location",
        rows |-> << <<"LOCATION_ID", "CITY">>, <<"20", "Oslo">>, <<"10", "Paris">> >>] >>

NoFile == [exists |-> FALSE, sheets |-> << >>]
XlsxFile(wb) == [exists |-> TRUE, sheets |-> wb]

\* What the stage holds; it does not change during a behaviour.
Stage(p) ==
    CASE p = P_order -> XlsxFile(WB_order)
      [] p = P_loc -> XlsxFile(WB_loc)
      [] p = P_arch -> XlsxFile(WB_arch)
      [] OTHER -> NoFile

\* Rows the mapping query can return: (STAGE_FILE_PATH, WORKSHEET_NAME, TARGET_TABLE).
Row(p, w, t) == [STAGE_FILE_PATH |-> p, WORKSHEET_NAME |-> w, TARGET_TABLE |-> t]
R_order == Row(P_order, "order_detail", "ORDER_DETAIL")
R_loc == Row(P_loc, "location", "LOCATION")
R_arch == Row(P_arch, "location", "LOCATION")
R_nosheet == Row(P_loc, "Location", "LOCATION")
R_missing == Row(P_missing, "order_detail", "ORDER_DETAIL")
R_empty == Row(P_order, "empty", "ORDER_DETAIL")

Records == {R_order, R_loc, R_arch, R_nosheet, R_missing, R_empty}
Tables == {r.TARGET_TABLE : r \in Records}

NoTable == [exists |-> FALSE, columns |-> << >>, rows |-> << >>]
PriorTable == [exists |-> TRUE, columns |-> <<"OLD">>, rows |-> << <<"old">> >>]

\* ------------------------------------------------------------ exceptions
NoExc == "none"
QueryError == "QueryError"
StagingError == "StagingError"
FileNotFoundError == "FileNotFoundError"
KeyError == "KeyError"
StopIteration == "StopIteration"
WriteError == "WriteError"
OSError == "OSError"

NoResult == [kind |-> "none", value |-> ""]
Returned(s) == [kind |-> "returned", value |-> s]
Raised(e) == [kind |-> "raised", value |-> e]
SUCCESS == "SUCCESS: Excel files loaded into Snowflake tables."

\* ------------------------------------------------------ pure computations
\* os.path.basename: the component after the last "/".
basename(p) == p[Len(p)]

local_directory == <<"tmp">>

\* os.path.join(local_directory, file_name)
join(dir, name) == Append(dir, name)

full_local_path(p) == join(local_directory, basename(p))

LocalPaths == {full_local_path(p) : p \in StagePaths}

\* Lower-casing of the worksheet names in use.
Lower(w) == IF w = "Location" THEN "location" ELSE w

\* Variant of the lookup that matches worksheet names without regard to case.
SheetIndexes_IgnoreCase(wb, w) == {k \in 1..Len(wb) : Lower(wb[k].name) = Lower(w)}

\* workbook[worksheet_name]: the worksheets of that exact name.
SheetIndexes(wb, w) == {k \in 1..Len(wb) : wb[k].name = w}
HasSheet(wb, w) == SheetIndexes(wb, w) # {}
Sheet(wb, w) == wb[CHOOSE k \in SheetIndexes(wb, w) : \A j \in SheetIndexes(wb, w) : k <= j]

\* Variant of the body that keeps the header row as a data row.
Body_KeepsHeader(data) == data

\* columns = next(data)[0:] and pd.DataFrame(data, columns=columns): the first
\* row names the columns, the remaining rows are the body.
Columns(data) == Head(data)
Body(data) == Tail(data)
DataFrame(data) == [exists |-> TRUE, columns |-> Columns(data), rows |-> Body(data)]

\* Variant of the write in append mode: the new rows follow the old ones.
SaveAsTable_Append(tbls, t, d) ==
    [tbls EXCEPT ![t] = [exists |-> TRUE, columns |-> d.columns, rows |-> tbls[t].rows \o d.rows]]

\* df2.write.mode("overwrite").save_as_table(target_table)
SaveAsTable(tbls, t, d) == [tbls EXCEPT ![t] = d]

\* A logger call: its level, which message it is, the path, file or table the
\* message names, the exception it formats, and the count it formats.
LogEntry(level, event, subject, err, n) ==
    [level |-> level, event |-> event, subject |-> subject, err |-> err, n |-> n]


\* ------------------------------------------------------------------ state
VARIABLES
    pc,               \* position in main / load_excel_worksheet_to_table_local
    runs,             \* invocations of main so far
    mapping,          \* what session.sql(mapping_query).collect() returns
    mapping_df_rows,  \* main's local: the collected rows
    idx,              \* position of the for loop in mapping_df_rows (0 before it)
    row,              \* the for loop's current row
    localfs,          \* files under /tmp: local path -> file
    tables,           \* destination store: table name -> table
    df,               \* the loader's DataFrame
    log,              \* messages the logger emitted in this invocation of main
    exc,              \* exception in flight in the loader ("none" when none)
    result,           \* how the last invocation of main ended
    \* history of the current invocation of main
    prevResult,       \* result of the invocation before this one
    startTables,      \* tables when main was entered
    startFs,          \* localfs when main was entered
    attempted,        \* indexes of the rows whose load was called, in call order
    completed,        \* indexes of the rows whose load returned True, in order
    writes,           \* indexes of the rows whose save_as_table succeeded, in order
    errors,           \* every exception raised in this invocation, in order
    \* history of the current call of the loader
    loadTables,       \* tables when the loader was entered
    firstErr,         \* first exception raised by lines 23-44 in this call
    removeFailed,     \* os.remove raised in this call
    cleanupRan        \* the finally block ran in this call

progVars_but_pc == <<runs, mapping, mapping_df_rows, idx, row, localfs, tables, df, log,
                     exc, result>>
progVars == <<pc, runs, mapping, mapping_df_rows, idx, row, localfs, tables, df, log,
              exc, result>>
runHist == <<prevResult, startTables, startFs, attempted, completed, writes, errors>>
loadHist == <<loadTables, firstErr, removeFailed, cleanupRan>>
vars == <<progVars, runHist, loadHist>>

NoRow == Row(<<"">>, "", "")

Mappings == UNION {[1..n -> Records] : n \in 0..MaxRecords}

Init ==
    /\ pc = "idle"
    /\ runs = 0
    /\ mapping \in Mappings
    /\ mapping_df_rows = << >>
    /\ idx = 0
    /\ row = NoRow
    /\ localfs = [q \in LocalPaths |-> NoFile]
    /\ tables \in [Tables -> {NoTable, PriorTable}]
    /\ df = NoTable
    /\ log = << >>
    /\ exc = NoExc
    /\ result = NoResult
    /\ prevResult = NoResult
    /\ startTables = tables
    /\ startFs = localfs
    /\ attempted = << >>
    /\ completed = << >>
    /\ writes = << >>
    /\ errors = << >>
    /\ loadTables = tables
    /\ firstErr = NoExc
    /\ removeFailed = FALSE
    /\ cleanupRan = FALSE

\* ------------------------------------------------------------------- main
\* The stored procedure is called (again).
Main_Call ==
    /\ pc = "idle"
    /\ runs < MaxRuns
    /\ pc' = "query"
    /\ runs' = runs + 1
    /\ mapping_df_rows' = << >>
    /\ idx' = 0
    /\ row' = NoRow
    /\ df' = NoTable
    /\ log' = << >>
    /\ exc' = NoExc
    /\ result' = NoResult
    /\ prevResult' = result
    /\ startTables' = tables
    /\ startFs' = localfs
    /\ attempted' = << >>
    /\ completed' = << >>
    /\ writes' = << >>
    /\ errors' = << >>
    /\ loadTables' = tables
    /\ firstErr' = NoExc
    /\ removeFailed' = FALSE
    /\ cleanupRan' = FALSE
    /\ UNCHANGED <<mapping, localfs, tables>>

\* Lines 69-71: the query succeeds; the rows are collected and counted.
Main_QueryOk ==
    /\ pc = "query"
    /\ mapping_df_rows' = mapping
    /\ log' = Append(log, LogEntry("INFO", "found", << >>, NoExc, Len(mapping)))
    /\ pc' = "for"
    /\ UNCHANGED <<runs, mapping, idx, row, localfs, tables, df, exc, result>>
    /\ UNCHANGED <<runHist, loadHist>>

\* Variant of the failing query in which main catches the exception and goes
\* on with no rows.
Main_QueryFail_Swallow ==
    /\ pc = "query"
    /\ errors' = Append(errors, QueryError)
    /\ pc' = "for"
    /\ UNCHANGED <<runs, mapping, mapping_df_rows, idx, row, localfs, tables, df, log, exc,
                   result>>
    /\ UNCHANGED <<prevResult, startTables, startFs, attempted, completed, writes>>
    /\ UNCHANGED loadHist

\* Line 69: the query raises; nothing in main catches it.
Main_QueryFail ==
    /\ pc = "query"
    /\ result' = Raised(QueryError)
    /\ errors' = Append(errors, QueryError)
    /\ pc' = "idle"
    /\ UNCHANGED <<runs, mapping, mapping_df_rows, idx, row, localfs, tables, df, log, exc>>
    /\ UNCHANGED <<prevResult, startTables, startFs, attempted, completed, writes>>
    /\ UNCHANGED loadHist

\* Lines 74-84 and 17-20: the loop takes the next row and calls the loader,
\* which logs the GET it is about to make.
Main_NextRow ==
    /\ pc = "for"
    /\ idx < Len(mapping_df_rows)
    /\ idx' = idx + 1
    /\ row' = mapping_df_rows[idx + 1]
    /\ attempted' = Append(attempted, idx + 1)
    /\ log' = Append(log, LogEntry("INFO", "get", mapping_df_rows[idx + 1].STAGE_FILE_PATH, NoExc, 0))
    /\ df' = NoTable
    /\ exc' = NoExc
    /\ loadTables' = tables
    /\ firstErr' = NoExc
    /\ removeFailed' = FALSE
    /\ cleanupRan' = FALSE
    /\ pc' = "get"
    /\ UNCHANGED <<runs, mapping, mapping_df_rows, localfs, tables, result>>
    /\ UNCHANGED <<prevResult, startTables, startFs, completed, writes, errors>>

\* Lines 86-87: the loop is exhausted; main returns the status string.
Main_Return ==
    /\ pc = "for"
    /\ idx >= Len(mapping_df_rows)
    /\ log' = Append(log, LogEntry("INFO", "end", << >>, NoExc, 0))
    /\ result' = Returned(SUCCESS)
    /\ pc' = "idle"
    /\ UNCHANGED <<runs, mapping, mapping_df_rows, idx, row, localfs, tables, df, exc>>
    /\ UNCHANGED <<runHist, loadHist>>


\* ------------------------------------- load_excel_worksheet_to_table_local
stage_file_path == row.STAGE_FILE_PATH
worksheet_name == row.WORKSHEET_NAME
target_table == row.TARGET_TABLE
file_name == basename(stage_file_path)
local_path == full_local_path(stage_file_path)

\* Line 23, outside the try block: the GET copies the stage file to /tmp
\* under its base name, replacing a file already there.
Load_GetOk ==
    /\ pc = "get"
    /\ Stage(stage_file_path).exists
    /\ localfs' = [localfs EXCEPT ![local_path] = Stage(stage_file_path)]
    /\ pc' = "open"
    /\ UNCHANGED <<runs, mapping, mapping_df_rows, idx, row, tables, df, log, exc, result>>
    /\ UNCHANGED <<runHist, loadHist>>

\* Line 23: the stage holds no such file and the GET returns having copied
\* nothing (the service reports an empty result instead of raising).
Load_GetNothing ==
    /\ pc = "get"
    /\ ~Stage(stage_file_path).exists
    /\ pc' = "open"
    /\ UNCHANGED <<runs, mapping, mapping_df_rows, idx, row, localfs, tables, df, log, exc,
                   result>>
    /\ UNCHANGED <<runHist, loadHist>>

\* Line 23: the GET raises (no such file, or the service fails).  The call is
\* not inside the try block: the exception leaves the loader at once, past
\* the except and finally clauses.
Load_GetRaise ==
    /\ pc = "get"
    /\ exc' = StagingError
    /\ firstErr' = StagingError
    /\ errors' = Append(errors, StagingError)
    /\ pc' = "after_load"
    /\ UNCHANGED <<runs, mapping, mapping_df_rows, idx, row, localfs, tables, df, log, result>>
    /\ UNCHANGED <<prevResult, startTables, startFs, attempted, completed, writes>>
    /\ UNCHANGED <<loadTables, removeFailed, cleanupRan>>

\* Line 29: open(full_local_path, 'rb') finds the file.
Load_OpenOk ==
    /\ pc = "open"
    /\ localfs[local_path].exists
    /\ pc' = "parse"
    /\ UNCHANGED <<runs, mapping, mapping_df_rows, idx, row, localfs, tables, df, log, exc,
                   result>>
    /\ UNCHANGED <<runHist, loadHist>>

\* Line 29: there is no file to open.
Load_OpenFail ==
    /\ pc = "open"
    /\ ~localfs[local_path].exists
    /\ exc' = FileNotFoundError
    /\ firstErr' = FileNotFoundError
    /\ errors' = Append(errors, FileNotFoundError)
    /\ pc' = "except"
    /\ UNCHANGED <<runs, mapping, mapping_df_rows, idx, row, localfs, tables, df, log, result>>
    /\ UNCHANGED <<prevResult, startTables, startFs, attempted, completed, writes>>
    /\ UNCHANGED <<loadTables, removeFailed, cleanupRan>>

\* Lines 30-38: the exception the parse of the opened workbook raises, if any.
ParseError(wb, w) ==
    IF ~HasSheet(wb, w) THEN KeyError
    ELSE IF Sheet(wb, w).rows = << >> THEN StopIteration
    ELSE NoExc

\* Lines 30-38: the worksheet is selected by name, its first row becomes the
\* column names and the rest the DataFrame's rows.
Load_ParseOk ==
    /\ pc = "parse"
    /\ ParseError(localfs[local_path].sheets, worksheet_name) = NoExc
    /\ df' = DataFrame(Sheet(localfs[local_path].sheets, worksheet_name).rows)
    /\ pc' = "write"
    /\ UNCHANGED <<runs, mapping, mapping_df_rows, idx, row, localfs, tables, log, exc, result>>
    /\ UNCHANGED <<runHist, loadHist>>

\* Lines 31, 35: no worksheet of that name (KeyError), or no first row
\* (StopIteration).
Load_ParseFail ==
    /\ pc = "parse"
    /\ ParseError(localfs[local_path].sheets, worksheet_name) # NoExc
    /\ exc' = ParseError(localfs[local_path].sheets, worksheet_name)
    /\ firstErr' = ParseError(localfs[local_path].sheets, worksheet_name)
    /\ errors' = Append(errors, ParseError(localfs[local_path].sheets, worksheet_name))
    /\ pc' = "except"
    /\ UNCHANGED <<runs, mapping, mapping_df_rows, idx, row, localfs, tables, df, log, result>>
    /\ UNCHANGED <<prevResult, startTables, startFs, attempted, completed, writes>>
    /\ UNCHANGED <<loadTables, removeFailed, cleanupRan>>

\* Lines 41-44: the DataFrame replaces the target table, and the success is
\* logged.
Load_WriteOk ==
    /\ pc = "write"
    /\ tables' = SaveAsTable(tables, target_table, df)
    /\ writes' = Append(writes, idx)
    /\ log' = Append(log, LogEntry("INFO", "loaded", <<target_table>>, NoExc, 0))
    /\ pc' = "finally"
    /\ UNCHANGED <<runs, mapping, mapping_df_rows, idx, row, localfs, df, exc, result>>
    /\ UNCHANGED <<prevResult, startTables, startFs, attempted, completed, errors>>
    /\ UNCHANGED loadHist

\* Lines 41-42: the store rejects the write; the table keeps its contents
\* (the store's overwrite of one table is atomic).
Load_WriteFail ==
    /\ pc = "write"
    /\ exc' = WriteError
    /\ firstErr' = WriteError
    /\ errors' = Append(errors, WriteError)
    /\ pc' = "except"
    /\ UNCHANGED <<runs, mapping, mapping_df_rows, idx, row, localfs, tables, df, log, result>>
    /\ UNCHANGED <<prevResult, startTables, startFs, attempted, completed, writes>>
    /\ UNCHANGED <<loadTables, removeFailed, cleanupRan>>

\* Variant of the except clause without its raise: the exception is logged
\* and dropped.
Load_Except_Swallow ==
    /\ pc = "except"
    /\ log' = Append(log, LogEntry("ERROR", "error", <<file_name>>, exc, 0))
    /\ exc' = NoExc
    /\ pc' = "finally"
    /\ UNCHANGED <<runs, mapping, mapping_df_rows, idx, row, localfs, tables, df, result>>
    /\ UNCHANGED <<runHist, loadHist>>

\* Variant of the except clause that also drops the target table.
Load_Except_DropTable ==
    /\ pc = "except"
    /\ log' = Append(log, LogEntry("ERROR", "error", <<file_name>>, exc, 0))
    /\ tables' = [tables EXCEPT ![target_table] = NoTable]
    /\ pc' = "finally"
    /\ UNCHANGED <<runs, mapping, mapping_df_rows, idx, row, localfs, df, exc, result>>
    /\ UNCHANGED <<runHist, loadHist>>

\* Lines 45-47: the exception is logged with the file's name and raised again.
Load_Except ==
    /\ pc = "except"
    /\ log' = Append(log, LogEntry("ERROR", "error", <<file_name>>, exc, 0))
    /\ pc' = "finally"
    /\ UNCHANGED <<runs, mapping, mapping_df_rows, idx, row, localfs, tables, df, exc, result>>
    /\ UNCHANGED <<runHist, loadHist>>

\* Lines 48-51: the file is there and os.remove deletes it.
Load_FinallyRemove ==
    /\ pc = "finally"
    /\ localfs[local_path].exists
    /\ localfs' = [localfs EXCEPT ![local_path] = NoFile]
    /\ cleanupRan' = TRUE
    /\ pc' = "after_load"
    /\ UNCHANGED <<runs, mapping, mapping_df_rows, idx, row, tables, df, log, exc, result>>
    /\ UNCHANGED runHist
    /\ UNCHANGED <<loadTables, firstErr, removeFailed>>

\* Lines 50-51: os.remove raises.  An exception raised inside a finally
\* clause replaces the one in flight.
Load_FinallyRemoveFail ==
    /\ pc = "finally"
    /\ localfs[local_path].exists
    /\ exc' = OSError
    /\ removeFailed' = TRUE
    /\ cleanupRan' = TRUE
    /\ errors' = Append(errors, OSError)
    /\ pc' = "after_load"
    /\ UNCHANGED <<runs, mapping, mapping_df_rows, idx, row, localfs, tables, df, log, result>>
    /\ UNCHANGED <<prevResult, startTables, startFs, attempted, completed, writes>>
    /\ UNCHANGED <<loadTables, firstErr>>

\* Line 50: there is no file to delete.
Load_FinallySkip ==
    /\ pc = "finally"
    /\ ~localfs[local_path].exists
    /\ cleanupRan' = TRUE
    /\ pc' = "after_load"
    /\ UNCHANGED <<runs, mapping, mapping_df_rows, idx, row, localfs, tables, df, log, exc,
                   result>>
    /\ UNCHANGED runHist
    /\ UNCHANGED <<loadTables, firstErr, removeFailed>>


\* Line 53 and the loop of lines 74-84: the loader returns True and the loop
\* goes on.
Load_Return ==
    /\ pc = "after_load"
    /\ exc = NoExc
    /\ completed' = Append(completed, idx)
    /\ pc' = "for"
    /\ UNCHANGED progVars_but_pc
    /\ UNCHANGED <<prevResult, startTables, startFs, attempted, writes, errors>>
    /\ UNCHANGED loadHist

\* Variant of the loop that catches what the loader raises and goes on with
\* the next row.
Main_Propagate_Continue ==
    /\ pc = "after_load"
    /\ exc # NoExc
    /\ pc' = "for"
    /\ UNCHANGED progVars_but_pc
    /\ UNCHANGED <<runHist, loadHist>>

\* Lines 79-84: main does not catch what the loader raises; the exception
\* leaves the loop and main.
Main_Propagate ==
    /\ pc = "after_load"
    /\ exc # NoExc
    /\ result' = Raised(exc)
    /\ pc' = "idle"
    /\ UNCHANGED <<runs, mapping, mapping_df_rows, idx, row, localfs, tables, df, log, exc>>
    /\ UNCHANGED <<runHist, loadHist>>

Next ==
    \/ Main_Call
    \/ Main_QueryOk
    \/ Main_QueryFail
    \/ Main_NextRow
    \/ Main_Return
    \/ Load_GetOk
    \/ Load_GetNothing
    \/ Load_GetRaise
    \/ Load_OpenOk
    \/ Load_OpenFail
    \/ Load_ParseOk
    \/ Load_ParseFail
    \/ Load_WriteOk
    \/ Load_WriteFail
    \/ Load_Except
    \/ Load_FinallyRemove
    \/ Load_FinallyRemoveFail
    \/ Load_FinallySkip
    \/ Load_Return
    \/ Main_Propagate

Spec == Init /\ [][Next]_vars


\* ------------------------------------------------------------- properties
Range(f) == {f[k] : k \in DOMAIN f}
Ident(n) == [k \in 1..n |-> k]

\* An invocation of main has ended (returned or raised).
RunEnded == pc = "idle" /\ runs > 0

\* The loader is running, or has just handed control back to main.
InLoader == pc \in {"get", "open", "parse", "write", "except", "finally", "after_load"}

\* What the stage holds for a row, read off the stage directly.
StageWorkbook(r) == Stage(r.STAGE_FILE_PATH).sheets
NamesSheet(r) == \E k \in 1..Len(StageWorkbook(r)) : StageWorkbook(r)[k].name = r.WORKSHEET_NAME
StageRows(r) ==
    StageWorkbook(r)[CHOOSE k \in 1..Len(StageWorkbook(r)) :
                        StageWorkbook(r)[k].name = r.WORKSHEET_NAME].rows

\* The file is on the stage, holds the worksheet, and the worksheet has a
\* first row.
ValidRecord(r) ==
    /\ Stage(r.STAGE_FILE_PATH).exists
    /\ NamesSheet(r)
    /\ Len(StageRows(r)) >= 1
AllValid(m) == \A k \in 1..Len(m) : ValidRecord(m[k])

\* The table a valid row is to produce: columns named by the worksheet's first
\* row, the rows after it in their order.
ExpectedTable(r) ==
    [exists |-> TRUE,
     columns |-> StageRows(r)[1],
     rows |-> [j \in 1..(Len(StageRows(r)) - 1) |-> StageRows(r)[j + 1]]]

DistinctTargets(m) ==
    \A j, k \in 1..Len(m) : j # k => m[j].TARGET_TABLE # m[k].TARGET_TABLE
LastForTable(m, k) ==
    \A j \in (k + 1)..Len(m) : m[j].TARGET_TABLE # m[k].TARGET_TABLE

\* The load of row k was called and raised.
LoadFailed(k) ==
    /\ k \in Range(attempted)
    /\ k \notin Range(completed)
    /\ \/ k # idx
       \/ pc \in {"for", "idle"}
       \/ pc = "after_load" /\ exc # NoExc

\* Error messages of the current call of the loader that name its file and
\* its first exception.
LoadLogStart == CHOOSE k \in DOMAIN log : log[k].event = "get" /\ \A j \in DOMAIN log : j > k => log[j].event # "get"
ErrorEntries ==
    {k \in DOMAIN log : /\ k > LoadLogStart
                        /\ log[k].level = "ERROR"
                        /\ log[k].subject = <<file_name>>
                        /\ log[k].err = firstErr}
AllErrorEntries == {k \in DOMAIN log : k > LoadLogStart /\ log[k].level = "ERROR"}

\* C1: when the loader hands control back (return or raise) and os.remove did
\* not itself fail, the local file /tmp/basename(stage_file_path) does not
\* exist, also when the GET raised with a file already at that path.
C1_LocalFileGoneAfterLoad ==
    (pc = "after_load" /\ ~removeFailed) => ~localfs[local_path].exists

\* C2 (as stated): a run over N valid rows with no failing service returns
\* success after exactly N writes, one per row in order, and the target table
\* of every row holds that row's worksheet (header as columns, body rows in
\* order, nothing of the prior contents).
C2_EveryRecordsTableHoldsItsWorksheet ==
    (RunEnded /\ AllValid(mapping) /\ errors = << >>) =>
        /\ result = Returned(SUCCESS)
        /\ writes = Ident(Len(mapping))
        /\ \A k \in 1..Len(mapping) :
              tables[mapping[k].TARGET_TABLE] = ExpectedTable(mapping[k])

\* C2 (amended): a run over N valid rows with no failing service returns success
\* after exactly N writes, one per row in order, and every target table holds
\* the worksheet of the last row that names it: with distinct target tables,
\* each row's own worksheet.
C2_LastRecordsWorksheetPerTable ==
    (RunEnded /\ AllValid(mapping) /\ errors = << >>) =>
        /\ result = Returned(SUCCESS)
        /\ writes = Ident(Len(mapping))
        /\ \A k \in 1..Len(mapping) :
              LastForTable(mapping, k) =>
                  tables[mapping[k].TARGET_TABLE] = ExpectedTable(mapping[k])

C2_Witness ==
    /\ RunEnded
    /\ AllValid(mapping)
    /\ errors = << >>
    /\ Len(mapping) = 2
    /\ DistinctTargets(mapping)
    /\ \A t \in Tables : startTables[t] = PriorTable
    /\ result = Returned(SUCCESS)
    /\ writes = <<1, 2>>

\* C3: when the fetched workbook has no worksheet of the requested name, the
\* loader raises, and from its entry to its exit no write to the target table
\* happens: the tables are those of the loader's entry.
C3_MissingWorksheetLeavesTable ==
    (InLoader /\ Stage(stage_file_path).exists /\ ~NamesSheet(row)) =>
        /\ tables = loadTables
        /\ idx \notin Range(writes)
        /\ pc = "after_load" => exc # NoExc

C3_Witness ==
    /\ pc = "after_load"
    /\ Stage(stage_file_path).exists
    /\ ~NamesSheet(row)
    /\ firstErr = KeyError
    /\ cleanupRan
    /\ loadTables[target_table] = PriorTable

\* C4: when the mapping query fails, main raises that error and nothing else
\* happened: no row was collected, no load was called, no table was written,
\* and the local files and tables are those of main's entry.
C4_QueryFailureHasNoEffects ==
    (QueryError \in Range(errors)) =>
        /\ pc = "idle"
        /\ result = Raised(QueryError)
        /\ mapping_df_rows = << >>
        /\ attempted = << >>
        /\ writes = << >>
        /\ tables = startTables
        /\ localfs = startFs

C4_Witness ==
    /\ RunEnded
    /\ QueryError \in Range(errors)
    /\ Len(mapping) = 2
    /\ result = Raised(QueryError)

\* C5: once the load of row i has raised, no row after i is ever attempted or
\* written, main never returns the success status, and main ends by raising
\* the loader's exception.
C5_FailureStopsTheRun ==
    \A k \in Range(attempted) :
        LoadFailed(k) =>
            /\ \A j \in Range(attempted) : j <= k
            /\ \A j \in Range(writes) : j <= k
            /\ result.kind # "returned"
            /\ pc \in {"after_load", "idle"}
            /\ pc = "idle" => (exc # NoExc /\ result = Raised(exc))

C5_Witness ==
    /\ RunEnded
    /\ Len(mapping_df_rows) = 2
    /\ LoadFailed(1)
    /\ firstErr = WriteError
    /\ attempted = <<1>>
    /\ result = Raised(WriteError)

\* C6: when lines 23-44 raised and os.remove then raises too, the loader's
\* caller gets the earlier exception; when only os.remove raised, the caller
\* gets that one.
C6_CleanupErrorDoesNotMask ==
    (pc = "after_load" /\ removeFailed) =>
        /\ firstErr # NoExc => exc = firstErr
        /\ firstErr = NoExc => exc = OSError

\* C7: an exception raised by the GET, the open, the parse or the write is
\* logged exactly once as an error naming the file, the cleanup runs, and the
\* exception then reaches the caller (os.remove not failing).
C7_EveryErrorLoggedOnceThenRaised ==
    (pc = "after_load" /\ firstErr # NoExc /\ ~removeFailed) =>
        /\ Cardinality(ErrorEntries) = 1
        /\ Cardinality(AllErrorEntries) = 1
        /\ cleanupRan
        /\ exc = firstErr

\* C8: main returns the success status exactly when nothing raised in the
\* invocation; then the query's rows were each loaded once, in order, and
\* every load returned.  Otherwise main raises the last exception raised.
C8_SuccessIffNothingRaised ==
    RunEnded =>
        /\ result = Returned(SUCCESS) <=> errors = << >>
        /\ result = Returned(SUCCESS) =>
              /\ mapping_df_rows = mapping
              /\ attempted = Ident(Len(mapping))
              /\ completed = Ident(Len(mapping))
        /\ result # Returned(SUCCESS) =>
              /\ result = Raised(errors[Len(errors)])
              /\ Len(completed) < Len(mapping) \/ QueryError \in Range(errors)

C8_Witness ==
    /\ RunEnded
    /\ result = Returned(SUCCESS)
    /\ Len(mapping) = 2
    /\ completed = <<1, 2>>

\* C9: when main succeeds twice in succession over the same stage and the
\* same mapping, the second run leaves every table as the first left it, and
\* no local file is left.
C9_SecondRunChangesNothing ==
    (RunEnded /\ prevResult = Returned(SUCCESS) /\ result = Returned(SUCCESS)) =>
        /\ tables = startTables
        /\ \A q \in LocalPaths : ~localfs[q].exists

C9_Witness ==
    /\ RunEnded
    /\ runs = 2
    /\ prevResult = Returned(SUCCESS)
    /\ result = Returned(SUCCESS)
    /\ writes = <<1, 2>>
    /\ \A k \in 1..2 : Len(tables[mapping[k].TARGET_TABLE].rows) >= 1

\* C10: when main raised because the load of row i raised, and the target
\* tables are distinct, the table of every row before i holds its worksheet,
\* the table of every row after i is as at main's entry, and the table of
\* row i is either as at main's entry or holds its whole worksheet.
C10_NoRollbackNoMixture ==
    (RunEnded /\ result.kind = "raised" /\ idx >= 1 /\ DistinctTargets(mapping)) =>
        \A k \in 1..Len(mapping) :
            /\ k < idx => tables[mapping[k].TARGET_TABLE] = ExpectedTable(mapping[k])
            /\ k > idx => tables[mapping[k].TARGET_TABLE] = startTables[mapping[k].TARGET_TABLE]
            /\ k = idx =>
                  \/ tables[mapping[k].TARGET_TABLE] = startTables[mapping[k].TARGET_TABLE]
                  \/ /\ ValidRecord(mapping[k])
                     /\ tables[mapping[k].TARGET_TABLE] = ExpectedTable(mapping[k])

C10_Witness ==
    /\ RunEnded
    /\ result = Raised(WriteError)
    /\ idx = 2
    /\ Len(mapping) = 2
    /\ DistinctTargets(mapping)
    /\ \A t \in Tables : startTables[t] = PriorTable
    /\ tables[mapping[1].TARGET_TABLE] = ExpectedTable(mapping[1])
    /\ tables[mapping[2].TARGET_TABLE] = PriorTable

====
